---- MODULE Spec2Model ----
(***************************************************************************)
(* Model of src/Board.py: the Sudoku board (class Grid, class Cube), the   *)
(* constraint check valid and the scan find_empty.                         *)
(*                                                                         *)
(* Name resolution in Board.py.  The statements at column 0 bind exactly   *)
(* the names pygame, time, Grid, Cube and main (lines 1, 2, 5, 208, 367).  *)
(* find_empty (line 285) and valid (line 299) are indented inside the body *)
(* of class Cube, so they are attributes of Cube and not module names: the *)
(* bare names find_empty and valid used by Grid.place (line 57),           *)
(* Grid.solve (line 156) and Grid.solve_game (line 181) do not resolve and *)
(* evaluating them raises NameError.  The exception leaves the method at   *)
(* that line; whatever the method assigned before it stays assigned.       *)
(* The functions themselves are ordinary functions and are callable as     *)
(* Cube.valid(bo, num, pos) and Cube.find_empty(bo).                       *)
(***************************************************************************)
EXTENDS Integers, Sequences, FiniteSets, TLC

VARIABLES cubes,     \* Grid.cubes: per cell the Cube fields value, temp, selected
          model,     \* Grid.model: the grid the checker and solver read
          selected,  \* Grid.selected: None or (row, col)
          op,        \* the Grid method called last
          arg,       \* its val argument (0 when it takes none)
          ret,       \* how that call ended: the value returned or the exception raised
          calls,     \* number of calls made so far
          bo,        \* argument bo of a direct call Cube.valid(bo, num, pos)
          num,       \* argument num of that call
          pos,       \* argument pos of that call
          out        \* what that call returned

vars == <<cubes, model, selected, op, arg, ret, calls, bo, num, pos, out>>

gridVars == <<cubes, model, selected, op, arg, ret, calls>>
fnVars == <<bo, num, pos, out>>

----------------------------------------------------------------------------
(* Bounds of the exploration *)

MaxOps == 3      \* calls made on one board
MaxRow == 0      \* rows 0..MaxRow are the rows a caller selects
MaxCol == 3      \* columns 0..MaxCol are the columns a caller selects
MaxEdits == 1    \* cells of the starting grid overwritten to build an argument for valid
MaxEditCol == 2  \* the overwritten cells lie in row 0, columns 0..MaxEditCol

----------------------------------------------------------------------------
(* Program constants *)

rows == 9
cols == 9

board ==
  << <<7, 8, 0, 4, 0, 0, 1, 2, 0>>,
     <<6, 0, 0, 0, 7, 5, 0, 0, 9>>,
     <<0, 0, 0, 6, 0, 1, 0, 7, 8>>,
     <<0, 0, 7, 0, 4, 0, 2, 6, 0>>,
     <<0, 0, 1, 0, 5, 0, 9, 3, 0>>,
     <<9, 0, 4, 0, 6, 0, 0, 0, 5>>,
     <<0, 7, 0, 3, 0, 0, 0, 1, 2>>,
     <<1, 2, 0, 0, 0, 7, 4, 0, 0>>,
     <<0, 4, 9, 2, 0, 6, 0, 0, 7>> >>

\* (row, col) pairs, 0-based as in the source
Pos == (0 .. rows - 1) \X (0 .. cols - 1)

\* range(1, 10): the digits the solver tries and the keys 1..9 main maps to a value
Digits == 1 .. 9

\* Grid.selected before any select
None == <<>>

\* Python list indexing, self.cubes[row][col]: an index i of a list of
\* length n is accepted when -n <= i < n (IndexError otherwise), and a
\* negative index counts from the end
InRange(i, n) == -n <= i /\ i < n

index(i, n) == IF i < 0 THEN i + n ELSE i

\* the position of the cube that self.cubes[p[0]][p[1]] denotes
cell(p) == <<index(p[1], rows), index(p[2], cols)>>

\* Cube.__init__
Cube(value) == [value |-> value, temp |-> 0, selected |-> FALSE]

\* Cube.set
set(cb, p, val) == [cb EXCEPT ![p].value = val]

\* Cube.set_temp
set_temp(cb, p, val) == [cb EXCEPT ![p].temp = val]

\* Grid.update_model: a fresh copy of the cubes' committed values
update_model(cb) == [p \in Pos |-> cb[p].value]

----------------------------------------------------------------------------
(* The functions defined in the body of class Cube *)

\* find_empty(bo): first (i, j) in row-major order with bo[i][j] == 0, or None
find_empty(b) ==
  LET empty == {p \in Pos : b[p] = 0}
  IN IF empty = {} THEN None
     ELSE CHOOSE p \in empty :
            \A q \in empty : p[1] < q[1] \/ (p[1] = q[1] /\ p[2] <= q[2])

\* valid with the box loop comparing the cell under test against itself
\* (line 325 without "and (i, j) != pos")
valid_box_includes_self(b, n, p) ==
  LET box_x == p[2] \div 3
      box_y == p[1] \div 3
  IN /\ ~ \E i \in 0 .. cols - 1 : b[<<p[1], i>>] = n /\ p[2] # i
     /\ ~ \E i \in 0 .. rows - 1 : b[<<i, p[2]>>] = n /\ p[1] # i
     /\ ~ \E i \in box_y * 3 .. box_y * 3 + 2 :
          \E j \in box_x * 3 .. box_x * 3 + 2 :
             b[<<i, j>>] = n

\* valid(bo, num, pos)
valid(b, n, p) ==
  LET box_x == p[2] \div 3
      box_y == p[1] \div 3
  IN /\ ~ \E i \in 0 .. cols - 1 : b[<<p[1], i>>] = n /\ p[2] # i
     /\ ~ \E i \in 0 .. rows - 1 : b[<<i, p[2]>>] = n /\ p[1] # i
     /\ ~ \E i \in box_y * 3 .. box_y * 3 + 2 :
          \E j \in box_x * 3 .. box_x * 3 + 2 :
             b[<<i, j>>] = n /\ <<i, j>> # p

----------------------------------------------------------------------------
(* Construction *)

\* Grid.__init__ on the class attribute board
InitGrid ==
  /\ cubes = [p \in Pos |-> Cube(board[p[1] + 1][p[2] + 1])]
  /\ model = [p \in Pos |-> board[p[1] + 1][p[2] + 1]]
  /\ selected = None
  /\ op = "init"
  /\ arg = 0
  /\ ret = "None"
  /\ calls = 0

Init ==
  /\ InitGrid
  /\ bo = [p \in Pos |-> board[p[1] + 1][p[2] + 1]]
  /\ num = 1
  /\ pos = <<0, 0>>
  /\ out = "none"

----------------------------------------------------------------------------
(* The methods of Grid, one call each *)

\* bookkeeping of one call
Call(name, val, result) ==
  /\ calls < MaxOps
  /\ calls' = calls + 1
  /\ op' = name
  /\ arg' = val
  /\ ret' = result

\* Grid.select(row, col): lines 103-105 reset every flag, line 107 indexes
\* the cubes (IndexError leaves the method there), line 108 stores (row, col)
select(row, col) ==
  /\ IF InRange(row, rows) /\ InRange(col, cols)
       THEN /\ Call("select", 0, "None")
            /\ cubes' = [p \in Pos |->
                          [cubes[p] EXCEPT !.selected = (p = cell(<<row, col>>))]]
            /\ selected' = <<row, col>>
       ELSE /\ Call("select", 0, "IndexError")
            /\ cubes' = [p \in Pos |-> [cubes[p] EXCEPT !.selected = FALSE]]
            /\ UNCHANGED selected
  /\ UNCHANGED <<model, fnVars>>

\* sketch writing the committed value instead of the scratch value
\* (line 73 calling set in place of set_temp)
sketch_commits(val) ==
  /\ IF selected = None
       THEN /\ Call("sketch", val, "TypeError")
            /\ UNCHANGED cubes
       ELSE /\ Call("sketch", val, "None")
            /\ cubes' = set(cubes, cell(selected), val)
  /\ UNCHANGED <<model, selected, fnVars>>

\* Grid.sketch(val); row, col = self.selected raises TypeError on None
sketch(val) ==
  /\ IF selected = None
       THEN /\ Call("sketch", val, "TypeError")
            /\ UNCHANGED cubes
       ELSE /\ Call("sketch", val, "None")
            /\ cubes' = set_temp(cubes, cell(selected), val)
  /\ UNCHANGED <<model, selected, fnVars>>

\* Grid.clear()
clear ==
  /\ IF selected = None
       THEN /\ Call("clear", 0, "TypeError")
            /\ UNCHANGED cubes
       ELSE /\ Call("clear", 0, "None")
            /\ cubes' = IF cubes[cell(selected)].value # 0
                          THEN set_temp(cubes, cell(selected), 0)
                          ELSE cubes
  /\ UNCHANGED <<model, selected, fnVars>>

\* place whose solvability search writes its first tentative digit into the
\* live cubes instead of the model
place_search_on_cubes(val) ==
  /\ IF selected = None
       THEN /\ Call("place", val, "TypeError")
            /\ UNCHANGED <<cubes, model>>
       ELSE IF cubes[cell(selected)].value = 0
         THEN LET c1 == set(cubes, cell(selected), val)
                  e == find_empty(update_model(c1))
              IN /\ Call("place", val, "NameError")
                 /\ cubes' = IF e = None THEN c1 ELSE set(c1, e, 1)
                 /\ model' = update_model(c1)
         ELSE /\ Call("place", val, "None")
              /\ UNCHANGED <<cubes, model>>
  /\ UNCHANGED <<selected, fnVars>>

\* place without the refresh of line 55: the model keeps the old grid
place_stale_model(val) ==
  /\ IF selected = None
       THEN /\ Call("place", val, "TypeError")
            /\ UNCHANGED <<cubes, model>>
       ELSE IF cubes[cell(selected)].value = 0
         THEN /\ Call("place", val, "NameError")
              /\ cubes' = set(cubes, cell(selected), val)
              /\ UNCHANGED model
         ELSE /\ Call("place", val, "None")
              /\ UNCHANGED <<cubes, model>>
  /\ UNCHANGED <<selected, fnVars>>

\* place without the test of line 53: it commits val whatever the cell holds
place_unguarded(val) ==
  /\ IF selected = None
       THEN /\ Call("place", val, "TypeError")
            /\ UNCHANGED <<cubes, model>>
       ELSE /\ Call("place", val, "NameError")
            /\ cubes' = set(cubes, cell(selected), val)
            /\ model' = update_model(set(cubes, cell(selected), val))
  /\ UNCHANGED <<selected, fnVars>>

\* Grid.place(val).  On an empty cell: line 54 commits val, line 55 copies
\* the cubes into the model, and line 57 evaluates the name valid, which
\* raises NameError, so lines 58-63 never run.  On a filled cell the method
\* falls off its end and returns None.
place(val) ==
  /\ IF selected = None
       THEN /\ Call("place", val, "TypeError")
            /\ UNCHANGED <<cubes, model>>
       ELSE IF cubes[cell(selected)].value = 0
         THEN /\ Call("place", val, "NameError")
              /\ cubes' = set(cubes, cell(selected), val)
              /\ model' = update_model(set(cubes, cell(selected), val))
         ELSE /\ Call("place", val, "None")
              /\ UNCHANGED <<cubes, model>>
  /\ UNCHANGED <<selected, fnVars>>

\* Grid.is_finished()
is_finished ==
  /\ Call("is_finished", 0,
          IF \E p \in Pos : cubes[p].value = 0 THEN "False" ELSE "True")
  /\ UNCHANGED <<cubes, model, selected, fnVars>>

\* Grid.solve(): line 156 evaluates the name find_empty, which raises NameError
solve ==
  /\ Call("solve", 0, "NameError")
  /\ UNCHANGED <<cubes, model, selected, fnVars>>

\* Grid.solve_game(): line 180 copies the cubes into the model, then line
\* 181 evaluates the name find_empty, which raises NameError
solve_game ==
  /\ Call("solve_game", 0, "NameError")
  /\ model' = update_model(cubes)
  /\ UNCHANGED <<cubes, selected, fnVars>>

\* the cells a caller selects
SelCells == (0 .. MaxRow) \X (0 .. MaxCol)

\* (row, col) arguments outside 0..8: one that wraps, one past the end
OutOfRangeCells == {<<-1, 0>>, <<rows, 0>>}

\* the val arguments a caller passes: the digits, and one value outside 0..9
CallerVals == Digits \cup {10}

Next ==
  \/ \E p \in SelCells \cup OutOfRangeCells : select(p[1], p[2])
  \/ \E val \in CallerVals : sketch(val)
  \/ clear
  \/ \E val \in CallerVals : place(val)
  \/ is_finished
  \/ solve
  \/ solve_game

Spec == Init /\ [][Next]_vars

----------------------------------------------------------------------------
(* Direct calls of Cube.valid on argument grids *)

\* the cells overwritten to build argument grids
EditCells == {0} \X (0 .. MaxEditCol)

\* the starting grid with at most k of these cells overwritten by any value 0..9
RECURSIVE Edited(_)
Edited(k) ==
  IF k = 0 THEN {[p \in Pos |-> board[p[1] + 1][p[2] + 1]]}
  ELSE LET S == Edited(k - 1)
       IN S \cup {[g EXCEPT ![p] = v] : g \in S, p \in EditCells, v \in 0 .. 9}

InitValid ==
  /\ InitGrid
  /\ bo \in Edited(MaxEdits)
  /\ num = 1
  /\ pos = <<0, 0>>
  /\ out = "none"

\* one call valid(b, n, p); the function assigns to none of its arguments
CallValid(n, p) ==
  /\ out = "none"
  /\ num' = n
  /\ pos' = p
  /\ out' = IF valid(bo, n, p) THEN "True" ELSE "False"
  /\ UNCHANGED <<bo, gridVars>>

NextValid == \E n \in Digits, p \in Pos : CallValid(n, p)

SpecValid == InitValid /\ [][NextValid]_vars

----------------------------------------------------------------------------
(* Vocabulary of the properties *)

\* the committed values of the cubes, as a grid
committed(cb) == [p \in Pos |-> cb[p].value]

\* the scratch values of the cubes, as a grid
scratch(cb) == [p \in Pos |-> cb[p].temp]

\* p and q lie in the same 3x3 box (box origin = (row - row % 3, col - col % 3))
SameBox(p, q) ==
  /\ p[1] - (p[1] % 3) = q[1] - (q[1] % 3)
  /\ p[2] - (p[2] % 3) = q[2] - (q[2] % 3)

\* some cell other than p in p's row, column or box holds n
Conflict(g, n, p) ==
  \E q \in Pos \ {p} :
     /\ g[q] = n
     /\ (q[1] = p[1] \/ q[2] = p[2] \/ SameBox(p, q))

\* no filled cell shares its value with another cell of its row, column or box
ConflictFree(g) == \A p \in Pos : g[p] # 0 => ~Conflict(g, g[p], p)

\* no empty cell
NoZero(g) == \A p \in Pos : g[p] # 0

\* the starting configuration as a grid
StartGrid == [p \in Pos |-> board[p[1] + 1][p[2] + 1]]

\* the step is a call of the Grid method name
IsCall(name) == calls' = calls + 1 /\ op' = name

\* the call returned a value (it did not raise)
Returned(r) == r \in {"True", "False", "None"}

\* the returned value is true when tested, as main tests it on line 439
Truthy(r) == r = "True"

----------------------------------------------------------------------------
(* Properties *)

\* No call of place is accepted: on an empty cell line 57 raises before
\* the method can return True.
PlaceNeverReturnsTrue == op = "place" => ret # "True"

\* No visible solve changes a committed value: line 181 raises before the
\* loop of lines 187-204 is entered.
SolveGameNeverCommits ==
  [][IsCall("solve_game") => committed(cubes') = committed(cubes)]_vars

\* C2: between operations, no filled cell shares its committed value with
\* another cell of the same row, column or 3x3 box.
C2_CommittedConflictFree == ConflictFree(committed(cubes))

\* C3: a place call that is not accepted leaves every committed value and
\* every scratch value as it was before the call.
C3_RejectedPlaceLeavesBoard ==
  [][(IsCall("place") /\ ~Truthy(ret'))
       => (committed(cubes') = committed(cubes) /\ scratch(cubes') = scratch(cubes))]_vars

\* C4: place on a cell whose committed value is non-zero returns a value
\* that tests false, for every digit, and changes no committed and no
\* scratch value.
C4_FilledCellPlaceIsNoOp ==
  [][(IsCall("place") /\ selected # None /\ cubes[cell(selected)].value # 0)
       => /\ Returned(ret') /\ ~Truthy(ret')
          /\ committed(cubes') = committed(cubes)
          /\ scratch(cubes') = scratch(cubes)]_vars

\* C4 witness: place was called with a digit on a given clue and returned
C4_PlacedOnClue ==
  /\ op = "place" /\ arg \in Digits /\ ret = "None"
  /\ selected # None
  /\ StartGrid[cell(selected)] # 0
  /\ cubes[cell(selected)].value = StartGrid[cell(selected)]

\* C5: valid(grid, value, (row, col)) returns false if and only if some
\* cell other than (row, col) in the same row, column or 3x3 box holds
\* value.
C5_ValidIffNoOtherHolder ==
  out # "none" => (out = "False" <=> Conflict(bo, num, pos))

\* C5 witness: valid was called on a cell that itself holds the value and
\* no other cell of its row, column or box does; it returned true
C5_SelfHoldingCellAccepted ==
  /\ out = "True"
  /\ bo[pos] = num

\* C6: the silent solve on a grid that has no valid completion (here: one
\* in which two cells of a row, column or box hold the same digit) returns
\* failure and leaves the grid as it was on entry.
C6_UnsolvableSolveFailsUnchanged ==
  [][(IsCall("solve") /\ ~ConflictFree(model))
       => (ret' = "False" /\ model' = model)]_vars

\* C7: the solver run on the fixed starting configuration returns success
\* and leaves a grid with no zero entry that satisfies row, column and box
\* uniqueness and keeps every originally filled cell.
C7_SolveCompletesStartGrid ==
  [][(IsCall("solve") /\ model = StartGrid)
       => /\ ret' = "True"
          /\ NoZero(model')
          /\ ConflictFree(model')
          /\ \A p \in Pos : model[p] # 0 => model'[p] = model[p]]_vars

\* C8: when an invocation of the solver (solve or solve_game) has ended,
\* it has either reported success with no empty cell left in the searched
\* grid, or reported failure.
C8_SolverEndsWithVerdict ==
  op \in {"solve", "solve_game"}
    => \/ (ret = "True" /\ NoZero(model))
       \/ ret = "False"

\* C9: a visible solve ends either reporting success with every committed
\* value non-zero and row, column and box uniqueness satisfied, or
\* reporting failure with every committed value as before the solve.
C9_VisibleSolveOutcome ==
  [][IsCall("solve_game")
       => \/ /\ ret' = "True"
             /\ NoZero(committed(cubes'))
             /\ ConflictFree(committed(cubes'))
          \/ /\ ret' = "False"
             /\ committed(cubes') = committed(cubes)]_vars

C12_ScenarioPlace56 ==
  [][(IsCall("place") /\ committed(cubes) = StartGrid /\ selected = <<0, 2>>)
       => /\ arg' = 5 => (ret' = "True" /\ cubes'[<<0, 2>>].value = 5)
          /\ arg' = 6 => (ret' = "False" /\ cubes'[<<0, 2>>].value = 0)]_vars

\* C13: clear sets the scratch value of the selected cell to 0 whatever
\* its committed value is, and changes no committed value.
C13_ClearResetsScratch ==
  [][(IsCall("clear") /\ selected # None)
       => /\ cubes'[cell(selected)].temp = 0
          /\ committed(cubes') = committed(cubes)]_vars

\* C14: sketch changes only the scratch value of the selected cell: it
\* returns normally whatever the value, the selected cell's scratch value
\* becomes the value given, and every committed value, the scratch value
\* of every other cell and the model stay as they were.
C14_SketchOnlyScratch ==
  [][(IsCall("sketch") /\ selected # None)
       => /\ ret' = "None"
          /\ cubes'[cell(selected)].temp = arg'
          /\ committed(cubes') = committed(cubes)
          /\ \A p \in Pos \ {cell(selected)} : cubes'[p].temp = cubes[p].temp
          /\ model' = model]_vars

\* C14 witness: sketch was called with a digit that another cell of the
\* selected cell's row, column or box already holds, and stored it
C14_SketchedIllegalDigit ==
  /\ op = "sketch" /\ ret = "None"
  /\ selected # None
  /\ arg \in Digits
  /\ cubes[cell(selected)].temp = arg
  /\ Conflict(committed(cubes), arg, cell(selected))

\* the step is a call with a row or column outside 0..8 or a value
\* outside 0..9: a select that raised IndexError or stored a pair outside
\* the grid, or a sketch or place on a selected cell with such a value
OutOfRangeCall ==
  \/ /\ IsCall("select")
     /\ (ret' = "IndexError" \/ selected' \notin Pos)
  \/ /\ IsCall("sketch") \/ IsCall("place")
     /\ selected # None
     /\ arg' \notin 0 .. 9

\* C15: a board accessor called with a row or column outside 0..8 or a
\* value outside 0..9 ends with a range error and leaves the selection and
\* every committed and scratch value unchanged; the input is not stored.
C15_OutOfRangeRejected ==
  [][OutOfRangeCall
       => /\ ret' \in {"OutOfRange", "IndexError"}
          /\ selected' = selected
          /\ committed(cubes') = committed(cubes)
          /\ scratch(cubes') = scratch(cubes)]_vars

\* C18: every cell that is non-zero in the starting configuration holds
\* its starting committed value in every state, and a call changes the
\* committed value only of a cell that was empty before it.
C18_CluesKept ==
  /\ [](\A p \in Pos : StartGrid[p] # 0 => cubes[p].value = StartGrid[p])
  /\ [][\A p \in Pos :
          cubes'[p].value # cubes[p].value => cubes[p].value = 0]_vars

\* C18 witness: a visible solve was called after place had written a
\* value into a cell that starts empty
C18_SolveGameAfterPlace ==
  /\ op = "solve_game"
  /\ \E p \in Pos : StartGrid[p] = 0 /\ cubes[p].value # 0

\* C19: when place or solve_game has ended, the model grid is an exact
\* copy of the cells' committed values.
C19_ModelIsCopy ==
  op \in {"place", "solve_game"} => model = committed(cubes)

\* C19 witness: place returned on a cell that an earlier place had written
C19_PlaceReturnedOnWrittenCell ==
  /\ op = "place" /\ ret = "None"
  /\ selected # None
  /\ StartGrid[cell(selected)] = 0
  /\ cubes[cell(selected)].value # 0

====
